---- MODULE Spec2Model ----
(***************************************************************************)
(* Model of src/array-utils.js: the three array helpers sum,               *)
(* findDuplicates and count, the JavaScript conversions Number(v) and      *)
(* String(v) they rest on, and a caller that applies them to an argument.  *)
(*                                                                         *)
(* A JavaScript string is a sequence of one-character strings, so that     *)
(* String(v) and Number(v) are computed character by character.            *)
(***************************************************************************)
EXTENDS Integers, Sequences, FiniteSets, TLC

\* Longest input array the caller passes.
MaxLen == 4

VARIABLES arr, src, call, ret

vars == <<arr, src, call, ret>>

----------------------------------------------------------------------------
\* JavaScript values.  Every value has the same three fields.

Num(k) == [type |-> "number", n |-> k, s |-> <<>>]

NaN == [type |-> "NaN", n |-> 0, s |-> <<>>]

Str(chars) == [type |-> "string", n |-> 0, s |-> chars]

Bool(b) == [type |-> "boolean", n |-> IF b THEN 1 ELSE 0, s |-> <<>>]

Null == [type |-> "null", n |-> 0, s |-> <<>>]

Undefined == [type |-> "undefined", n |-> 0, s |-> <<>>]

\* The elements the caller puts in an array: numbers, a numeric string, the
\* empty string, a non-numeric string, a boolean and the two missing-value
\* markers.
Values ==
    { Num(1), Num(12), Str(<<"1", "2">>), Str(<<>>), Str(<<"x">>),
      Bool(TRUE), Null, Undefined }

Array(elems) == [type |-> "array", elems |-> elems]

\* Arguments that are not arrays: a string (iterable, with a length), null,
\* and an array-like object.
NonArrays ==
    { [type |-> "string", elems |-> <<Str(<<"x">>), Str(<<"x">>)>>],
      [type |-> "null", elems |-> <<>>],
      [type |-> "object", elems |-> <<Num(1), Num(1)>>] }

SeqsUpTo(S, n) == UNION { [1..k -> S] : k \in 0..n }

Arguments == { Array(e) : e \in SeqsUpTo(Values, MaxLen) } \cup NonArrays

isArray(a) == a.type = "array"

----------------------------------------------------------------------------
\* Number(v) and String(v).

Digits == <<"0", "1", "2", "3", "4", "5", "6", "7", "8", "9">>

IsDigit(c) == \E d \in 1..10 : Digits[d] = c

DigitValue(c) == (CHOOSE d \in 1..10 : Digits[d] = c) - 1

IsWhiteSpace(c) == c \in {" ", "\t", "\n"}

RECURSIVE TrimStart(_)
TrimStart(s) ==
    IF s # <<>> /\ IsWhiteSpace(Head(s)) THEN TrimStart(Tail(s)) ELSE s

RECURSIVE TrimEnd(_)
TrimEnd(s) ==
    IF s # <<>> /\ IsWhiteSpace(s[Len(s)])
    THEN TrimEnd(SubSeq(s, 1, Len(s) - 1))
    ELSE s

Trim(s) == TrimEnd(TrimStart(s))

\* The value of a non-empty run of decimal digits, read left to right.
RECURSIVE DigitsValue(_, _)
DigitsValue(s, sofar) ==
    IF s = <<>> THEN sofar
    ELSE DigitsValue(Tail(s), 10 * sofar + DigitValue(Head(s)))

AllDigits(s) == s # <<>> /\ \A p \in 1..Len(s) : IsDigit(s[p])

\* Number(string): white space is trimmed, the empty string is 0, an optional
\* sign and decimal digits give an integer, anything else is NaN.  (The
\* strings of Values hold no ".", exponent, radix prefix or "Infinity".)
StringToNumber(s) ==
    LET t == Trim(s) IN
    IF t = <<>> THEN Num(0)
    ELSE IF AllDigits(t) THEN Num(DigitsValue(t, 0))
    ELSE IF Head(t) = "-" /\ AllDigits(Tail(t)) THEN Num(0 - DigitsValue(Tail(t), 0))
    ELSE IF Head(t) = "+" /\ AllDigits(Tail(t)) THEN Num(DigitsValue(Tail(t), 0))
    ELSE NaN

\* Number(v) written as parseFloat(v): null, booleans and the empty string
\* are not numbers.
Number_parseFloat(v) ==
    CASE v.type = "number" -> v
      [] v.type = "string" /\ Trim(v.s) # <<>> -> StringToNumber(v.s)
      [] OTHER -> NaN

Number(v) ==
    CASE v.type = "number" -> v
      [] v.type = "NaN" -> NaN
      [] v.type = "string" -> StringToNumber(v.s)
      [] v.type = "boolean" -> Num(v.n)
      [] v.type = "null" -> Num(0)
      [] v.type = "undefined" -> NaN

isNaN(v) == v.type = "NaN"

RECURSIVE NatToString(_)
NatToString(k) ==
    IF k < 10 THEN <<Digits[k + 1]>>
    ELSE NatToString(k \div 10) \o <<Digits[(k % 10) + 1]>>

String(v) ==
    CASE v.type = "number" ->
             IF v.n < 0 THEN <<"-">> \o NatToString(0 - v.n) ELSE NatToString(v.n)
      [] v.type = "NaN" -> <<"N", "a", "N">>
      [] v.type = "string" -> v.s
      [] v.type = "boolean" ->
             IF v.n = 1 THEN <<"t", "r", "u", "e">> ELSE <<"f", "a", "l", "s", "e">>
      [] v.type = "null" -> <<"n", "u", "l", "l">>
      [] v.type = "undefined" -> <<"u", "n", "d", "e", "f", "i", "n", "e", "d">>

----------------------------------------------------------------------------
\* What a call gives back: a returned value or a thrown TypeError.  examined
\* counts the elements of the argument the call has read.

Return(value, examined) ==
    [kind |-> "return", value |-> value, error |-> "", message |-> "",
     index |-> -1, examined |-> examined]

Throw(message, index, examined) ==
    [kind |-> "throw", value |-> 0, error |-> "TypeError", message |-> message,
     index |-> index, examined |-> examined]

NoCall ==
    [kind |-> "none", value |-> 0, error |-> "", message |-> "",
     index |-> -1, examined |-> 0]

----------------------------------------------------------------------------
\* sum

\* The callback reporting a 1-based index.
SumCallback_OneBasedIndex(acc, v, i) ==
    LET n == Number(v) IN
    IF isNaN(n)
    THEN [thrown |-> TRUE, acc |-> acc, index |-> i + 1]
    ELSE [thrown |-> FALSE, acc |-> acc + n.n, index |-> i]

\* The callback adding the element where it should add its conversion: only
\* an element that is a number adds its value.
SumCallback_AddsRaw(acc, v, i) ==
    LET n == Number(v) IN
    IF isNaN(n)
    THEN [thrown |-> TRUE, acc |-> acc, index |-> i]
    ELSE [thrown |-> FALSE, acc |-> acc + (IF v.type = "number" THEN v.n ELSE 0),
          index |-> i]

\* The reduce callback on accumulator acc, element v, 0-based index i.
SumCallback(acc, v, i) ==
    LET n == Number(v) IN
    IF isNaN(n)
    THEN [thrown |-> TRUE, acc |-> acc, index |-> i]
    ELSE [thrown |-> FALSE, acc |-> acc + n.n, index |-> i]

\* Array.prototype.reduce with initial value: elements p..Len(elems) in order
\* (p is 1-based, the callback's index 0-based).
RECURSIVE Reduce(_, _, _)
Reduce(elems, p, acc) ==
    IF p > Len(elems) THEN Return(acc, Len(elems))
    ELSE LET r == SumCallback(acc, elems[p], p - 1) IN
         IF r.thrown THEN Throw("is not numeric", r.index, p)
         ELSE Reduce(elems, p + 1, r.acc)

sum(a) ==
    IF ~isArray(a) THEN Throw("expects an array", -1, 0)
    ELSE Reduce(a.elems, 1, 0)

----------------------------------------------------------------------------
\* findDuplicates

\* A Map is a function on the keys set so far; keys are compared as values
\* (a number and the string of its digits are different keys).
MapSet(map, key, value) == (key :> value) @@ map

EmptyMap == <<>>

\* A Set keeps its members in insertion order.
SetHas(set, item) == \E p \in 1..Len(set) : set[p] = item

SetAdd(set, item) == IF SetHas(set, item) THEN set ELSE Append(set, item)

SetDelete(set, item) == SelectSeq(set, LAMBDA x : x # item)

\* map.get(key) || 0 and map[key] || 0: the stored count, or 0 when the key is
\* absent (undefined) or the stored count is 0.
GetOrZero(map, key) == IF key \in DOMAIN map /\ map[key] # 0 THEN map[key] ELSE 0

\* The first loop marking an item at its third occurrence.
FirstLoopBody_MarksAtThird(st, item) ==
    LET prev == GetOrZero(st.counts, item)
        counts == MapSet(st.counts, item, prev + 1)
    IN [counts |-> counts,
        duplicates |-> IF prev = 2 THEN SetAdd(st.duplicates, item)
                       ELSE st.duplicates]

\* Body of the first loop: tally the item, mark it when its count reaches 2.
FirstLoopBody(st, item) ==
    LET prev == GetOrZero(st.counts, item)
        counts == MapSet(st.counts, item, prev + 1)
    IN [counts |-> counts,
        duplicates |-> IF prev + 1 = 2 THEN SetAdd(st.duplicates, item)
                       ELSE st.duplicates]

RECURSIVE FirstLoop(_, _, _)
FirstLoop(elems, p, st) ==
    IF p > Len(elems) THEN st
    ELSE FirstLoop(elems, p + 1, FirstLoopBody(st, elems[p]))

\* The second loop without duplicates.delete(item).
SecondLoopBody_NoDelete(st, item) ==
    IF SetHas(st.duplicates, item)
    THEN [duplicates |-> st.duplicates, result |-> Append(st.result, item)]
    ELSE st

\* Body of the second loop: push a marked item and unmark it.
SecondLoopBody(st, item) ==
    IF SetHas(st.duplicates, item)
    THEN [duplicates |-> SetDelete(st.duplicates, item),
          result |-> Append(st.result, item)]
    ELSE st

RECURSIVE SecondLoop(_, _, _)
SecondLoop(elems, p, st) ==
    IF p > Len(elems) THEN st
    ELSE SecondLoop(elems, p + 1, SecondLoopBody(st, elems[p]))

\* findDuplicates returning the duplicates Set in its insertion order, with
\* no second loop.
findDuplicates_InsertionOrder(a) ==
    IF ~isArray(a) THEN Throw("expects an array", -1, 0)
    ELSE LET first == FirstLoop(a.elems, 1, [counts |-> EmptyMap, duplicates |-> <<>>])
         IN Return(first.duplicates, Len(a.elems))

findDuplicates(a) ==
    IF ~isArray(a) THEN Throw("expects an array", -1, 0)
    ELSE LET first == FirstLoop(a.elems, 1, [counts |-> EmptyMap, duplicates |-> <<>>])
             second == SecondLoop(a.elems, 1,
                                  [duplicates |-> first.duplicates, result |-> <<>>])
         IN Return(second.result, 2 * Len(a.elems))

----------------------------------------------------------------------------
\* count

\* The loop body with (map[key] || 1) + 1.
CountLoopBody_StartsAtOne(map, item) ==
    LET key == String(item) IN
    MapSet(map, key, (IF key \in DOMAIN map THEN map[key] ELSE 1) + 1)

\* The loop body with map[key] = 1.
CountLoopBody_NoIncrement(map, item) ==
    LET key == String(item) IN
    MapSet(map, key, 1)

\* Body of the loop on the prototype-less object map: keys are strings.
CountLoopBody(map, item) ==
    LET key == String(item) IN
    MapSet(map, key, GetOrZero(map, key) + 1)

RECURSIVE CountLoop(_, _, _)
CountLoop(elems, p, map) ==
    IF p > Len(elems) THEN map
    ELSE CountLoop(elems, p + 1, CountLoopBody(map, elems[p]))

\* count without the Array.isArray check.
count_NoCheck(a) == Return(CountLoop(a.elems, 1, EmptyMap), Len(a.elems))

count(a) ==
    IF ~isArray(a) THEN Throw("expects an array", -1, 0)
    ELSE Return(CountLoop(a.elems, 1, EmptyMap), Len(a.elems))

----------------------------------------------------------------------------
\* The caller.

Init ==
    /\ arr \in Arguments
    /\ src = "input"
    /\ call = "none"
    /\ ret = NoCall

CallSum ==
    /\ call' = "sum"
    /\ ret' = sum(arr)
    /\ UNCHANGED <<arr, src>>

CallFindDuplicates ==
    /\ call' = "findDuplicates"
    /\ ret' = findDuplicates(arr)
    /\ UNCHANGED <<arr, src>>

CallCount ==
    /\ call' = "count"
    /\ ret' = count(arr)
    /\ UNCHANGED <<arr, src>>

\* findDuplicates applied to the array an earlier findDuplicates returned.
CallFindDuplicatesOnResult ==
    /\ call = "findDuplicates"
    /\ ret.kind = "return"
    /\ arr' = Array(ret.value)
    /\ src' = "findDuplicates"
    /\ call' = "findDuplicates"
    /\ ret' = findDuplicates(arr')

Next ==
    \/ CallSum
    \/ CallFindDuplicates
    \/ CallCount
    \/ CallFindDuplicatesOnResult

Spec == Init /\ [][Next]_vars

----------------------------------------------------------------------------
\* Notions the properties are stated in.

Range(seq) == { seq[p] : p \in 1..Len(seq) }

Positions(seq, v) == { p \in 1..Len(seq) : seq[p] = v }

Occurrences(seq, v) == Cardinality(Positions(seq, v))

Min(S) == CHOOSE x \in S : \A y \in S : x <= y

FirstIndex(seq, v) == Min(Positions(seq, v))

SecondIndex(seq, v) == Min(Positions(seq, v) \ {FirstIndex(seq, v)})

\* The decimal numerals of the integers a string of Values can spell.
Numerals == -99..99

NumeralOf == [k \in Numerals |-> String(Num(k))]

\* A numeric primitive: a number, a boolean, the empty string or the numeral
\* of an integer.
NumericPrimitive(v) ==
    \/ v.type \in {"number", "boolean"}
    \/ v.type = "string" /\ (v.s = <<>> \/ \E k \in Numerals : NumeralOf[k] = v.s)

Convertible(v) == NumericPrimitive(v) \/ v = Null

\* The number a convertible value stands for.
ExpectedNumber(v) ==
    CASE v.type = "number" -> v.n
      [] v.type = "boolean" -> IF v = Bool(TRUE) THEN 1 ELSE 0
      [] v.type = "string" ->
             IF v.s = <<>> THEN 0 ELSE CHOOSE k \in Numerals : NumeralOf[k] = v.s
      [] OTHER -> 0

RECURSIVE Total(_)
Total(seq) ==
    IF seq = <<>> THEN 0
    ELSE Total(SubSeq(seq, 1, Len(seq) - 1)) + ExpectedNumber(seq[Len(seq)])

RECURSIVE SumOfCounts(_)
SumOfCounts(map) ==
    IF DOMAIN map = {} THEN 0
    ELSE LET k == CHOOSE x \in DOMAIN map : TRUE IN
         map[k] + SumOfCounts([x \in DOMAIN map \ {k} |-> map[x]])

Returned(name) == call = name /\ isArray(arr) /\ ret.kind = "return"

----------------------------------------------------------------------------
\* C1: findDuplicates(arr) holds a value if and only if the value occurs two
\* or more times in arr, holds each such value exactly once, and is no longer
\* than the number of distinct values of arr.
C1_ExactlyTheRepeatedValues ==
    call = "findDuplicates" /\ isArray(arr) =>
        /\ ret.kind = "return"
        /\ \A v \in Range(arr.elems) \cup Range(ret.value) :
              /\ v \in Range(ret.value) <=> Occurrences(arr.elems, v) >= 2
              /\ Occurrences(ret.value, v) <= 1
        /\ Len(ret.value) <= Cardinality(Range(arr.elems))

\* A call on an array with a repeated value and a value that occurs once.
C1_Witness ==
    /\ Returned("findDuplicates")
    /\ \E v, w \in Range(arr.elems) :
          /\ Occurrences(arr.elems, v) >= 3
          /\ Occurrences(arr.elems, w) = 1
          /\ ret.value = <<v>>

\* C2: the values of findDuplicates(arr) are ordered by the position of
\* their second occurrence in arr.
C2_OrderedBySecondOccurrence ==
    Returned("findDuplicates") =>
        \A v, w \in Range(ret.value) :
            SecondIndex(arr.elems, v) < SecondIndex(arr.elems, w) =>
                FirstIndex(ret.value, v) < FirstIndex(ret.value, w)

C4_CountsByStringForm ==
    call = "count" /\ isArray(arr) =>
        /\ ret.kind = "return"
        /\ DOMAIN ret.value = { String(e) : e \in Range(arr.elems) }
        /\ \A k \in DOMAIN ret.value :
              /\ ret.value[k] =
                     Cardinality({ p \in 1..Len(arr.elems) : String(arr.elems[p]) = k })
              /\ ret.value[k] >= 1
        /\ SumOfCounts(ret.value) = Len(arr.elems)

\* A number and a string with the same string form share one key.
C4_Witness ==
    /\ Returned("count")
    /\ Num(12) \in Range(arr.elems)
    /\ Str(<<"1", "2">>) \in Range(arr.elems)
    /\ ret.value[<<"1", "2">>] >= 2
    /\ Cardinality(DOMAIN ret.value) >= 2

\* C5: when arr holds an element that cannot be converted to a number, sum
\* throws a TypeError naming the smallest index of such an element, and reads
\* no element after it.
C5_FailsAtFirstNonConvertible ==
    call = "sum" /\ isArray(arr)
      /\ (\E p \in 1..Len(arr.elems) : ~Convertible(arr.elems[p])) =>
        /\ ret.kind = "throw"
        /\ ret.error = "TypeError"
        /\ ret.message = "is not numeric"
        /\ ret.index + 1 = Min({ p \in 1..Len(arr.elems) : ~Convertible(arr.elems[p]) })
        /\ ret.examined = ret.index + 1

\* Two non-convertible elements, the first after a convertible one and before
\* the end of the array.
C5_Witness ==
    /\ call = "sum" /\ isArray(arr) /\ ret.kind = "throw"
    /\ Len(arr.elems) = 4
    /\ Convertible(arr.elems[1])
    /\ ~Convertible(arr.elems[2])
    /\ ~Convertible(arr.elems[4])
    /\ ret.index = 1

\* C6: when every element of arr converts to a number, sum returns the total
\* of the converted elements (a numeric string counts as its number, true as
\* 1), and 0 for the empty array.
C6_TotalOfConvertedElements ==
    call = "sum" /\ isArray(arr)
      /\ (\A p \in 1..Len(arr.elems) : Convertible(arr.elems[p])) =>
        /\ ret.kind = "return"
        /\ ret.value = Total(arr.elems)

\* A number, a numeric string and a boolean added up.
C6_Witness ==
    /\ Returned("sum")
    /\ {Num(1), Str(<<"1", "2">>), Bool(TRUE)} \subseteq Range(arr.elems)
    /\ ret.value >= 14

\* The elements of seq that are neither null nor undefined.
WithoutMarkers(seq) == SelectSeq(seq, LAMBDA v : v \notin {Null, Undefined})

OnlyMarkersNonNumeric(seq) ==
    \A p \in 1..Len(seq) : NumericPrimitive(seq[p]) \/ seq[p] \in {Null, Undefined}

\* C7 as stated: null and undefined elements are treated as 0, so an array
\* whose only non-numeric elements are such markers does not fail and each
\* marker adds 0.
C7_MarkersAreZero ==
    call = "sum" /\ isArray(arr) /\ OnlyMarkersNonNumeric(arr.elems) =>
        /\ ret.kind = "return"
        /\ ret.value = Total(WithoutMarkers(arr.elems))

\* C7 amended: null is treated as 0 (an array whose only non-numeric
\* elements are null does not fail and each null adds 0); undefined is not
\* convertible, and an array holding it fails at its first undefined element.
C7_NullIsZeroUndefinedFails ==
    call = "sum" /\ isArray(arr) /\ OnlyMarkersNonNumeric(arr.elems) =>
        IF Undefined \in Range(arr.elems)
        THEN /\ ret.kind = "throw"
             /\ ret.message = "is not numeric"
             /\ ret.index + 1 = FirstIndex(arr.elems, Undefined)
        ELSE /\ ret.kind = "return"
             /\ ret.value = Total(WithoutMarkers(arr.elems))

\* A sum over numbers, null and the empty string that returns the numbers'
\* total.
C7_Witness ==
    /\ Returned("sum")
    /\ {Null, Str(<<>>), Num(12)} \subseteq Range(arr.elems)
    /\ ret.value = 12

\* C8: every value of findDuplicates(arr) has a count of at least 2 in
\* count(arr), at the key of its string form.
C8_DuplicatesCountAtLeastTwo ==
    Returned("findDuplicates") =>
        \A v \in Range(ret.value) :
            /\ String(v) \in DOMAIN count(arr).value
            /\ count(arr).value[String(v)] >= 2

\* A repeated value whose key also counts an element of another type.
C8_Witness ==
    /\ Returned("findDuplicates")
    /\ ret.value = <<Num(12)>>
    /\ count(arr).value[String(Num(12))] = 3

\* C9: each of the three functions, called with an argument that is not an
\* array, throws a TypeError at once: no element is read and nothing is
\* returned.
C9_NonArrayRejectedAtOnce ==
    call # "none" /\ ~isArray(arr) =>
        /\ ret.kind = "throw"
        /\ ret.error = "TypeError"
        /\ ret.message = "expects an array"
        /\ ret.examined = 0

\* A call on a non-array that has elements to read.
C9_Witness ==
    /\ call = "count"
    /\ ~isArray(arr)
    /\ Len(arr.elems) > 0
    /\ ret.kind = "throw"

\* C10: findDuplicates applied to a result of findDuplicates returns the
\* empty array.
C10_SecondApplicationIsEmpty ==
    Returned("findDuplicates") /\ src = "findDuplicates" => ret.value = <<>>

\* The second application, on a first result that is not empty.
C10_Witness ==
    /\ Returned("findDuplicates")
    /\ src = "findDuplicates"
    /\ Len(arr.elems) = 2
    /\ ret.value = <<>>

====
